---------------------------- MODULE Spec2Model ----------------------------
(***************************************************************************)
(* Model of Code/LunarModules/ImageProcessor.py: the pixel transforms of   *)
(* class ImageProcessor (binarize, rescale, mask_max_pixel_normalize,      *)
(* mask_argmax, one_hot_encode, reverse_one_hot_encode, the two            *)
(* preprocessor pipelines) and data_augmentation.                          *)
(*                                                                         *)
(* Numbers.  A pixel value v is held as the integer v * Unit with          *)
(* Unit = 255 * 255, so that the 8-bit values 0..255, the fractions k/255  *)
(* and the quotients (k/255)/255 are all exact integers.  Arithmetic is    *)
(* exact rational arithmetic; binary floating-point rounding is not        *)
(* modelled.                                                               *)
(*                                                                         *)
(* Arrays.  A numpy array of shape (H, W, C) is a sequence of H rows, each *)
(* a sequence of W pixels, each a sequence of C channel values; index k of *)
(* the model is index k-1 of the code.                                     *)
(***************************************************************************)
EXTENDS Integers, Sequences, FiniteSets

VARIABLES
    class_map,   \* the class table handed to the codec; None selects the default
    arr,         \* the caller's array object (its current contents)
    ret,         \* the array returned by the last call (None before any call)
    ret_is_arr,  \* TRUE when ret is the very object arr (a call returned its argument)
    pc,          \* "input", "once" (one call made), "twice" (two calls made)
    c1,          \* record of the first call
    c2,          \* record of the second call
    aug_pc,      \* position inside data_augmentation
    image,       \* data_augmentation's image argument
    mask,        \* data_augmentation's mask argument
    pil_image,   \* the 8-bit image held by data_augmentation
    pil_mask,    \* the 8-bit mask held by data_augmentation
    flips,       \* which flips each of the two 8-bit arrays has received
    draws,       \* the flip decisions drawn so far, in order
    out          \* the pair (img, msk) returned by data_augmentation

vars == <<class_map, arr, ret, ret_is_arr, pc, c1, c2,
          aug_pc, image, mask, pil_image, pil_mask, flips, draws, out>>

procVars == <<class_map, arr, ret, ret_is_arr, pc, c1, c2>>
augVars == <<aug_pc, image, mask, pil_image, pil_mask, flips, draws, out>>

---------------------------------------------------------------------------
(* Bounds of the model. *)

\* Largest number of pixels (H * W) of an array handed to a transform.
MaxPixels == 2

\* Largest number of pixels (H * W) of an image/mask pair handed to
\* data_augmentation.
MaxAugPixels == 4

---------------------------------------------------------------------------
(* Numbers. *)

Unit == 255 * 255

\* The 8-bit value k (0..255 scale).
Raw(k) == k * Unit

\* The fraction k/255 ([0,1] scale).
Frac(k) == k * 255

None == <<>>

SetMax(S) == CHOOSE m \in S : \A x \in S : x <= m

---------------------------------------------------------------------------
(* Arrays. *)

Height(img) == Len(img)
Width(img) == Len(img[1])
Channels(img) == Len(img[1][1])

Positions(img) == {<<i, j>> : i \in 1..Height(img), j \in 1..Width(img)}

Elements(img) ==
    UNION {{img[i][j][k] : k \in 1..Len(img[i][j])} : i \in 1..Height(img), j \in 1..Width(img)}

\* np.max(img)
ArrayMax(img) == SetMax(Elements(img))

\* img[::,::,k].max()
ChannelMax(img, k) == SetMax({img[p[1]][p[2]][k] : p \in Positions(img)})

\* The arrays of the given pixels with H * W <= n, H <= W.
ArraysOf(pixels, n) ==
    UNION {[1..h -> [1..w -> pixels]] :
             <<h, w>> \in {s \in (1..n) \X (1..n) : s[1] * s[2] <= n /\ s[1] <= s[2]}}

---------------------------------------------------------------------------
(* binarize, lines 34-54. *)

\* img[img > t] = 255. : the first masked assignment of either branch.
SetAbove(img, t) ==
    [i \in 1..Height(img) |-> [j \in 1..Width(img) |-> [k \in 1..Len(img[i][j]) |->
        IF img[i][j][k] > t THEN Raw(255) ELSE img[i][j][k]]]]

\* The second masked assignment written with < in place of <= : an element
\* equal to t is left as it is.
SetNotAbove_strict(img, t) ==
    [i \in 1..Height(img) |-> [j \in 1..Width(img) |-> [k \in 1..Len(img[i][j]) |->
        IF img[i][j][k] < t THEN 0 ELSE img[i][j][k]]]]

\* img[img <= t] = 0. : the second masked assignment, on the array as the
\* first one left it.
SetNotAbove(img, t) ==
    [i \in 1..Height(img) |-> [j \in 1..Width(img) |-> [k \in 1..Len(img[i][j]) |->
        IF img[i][j][k] <= t THEN 0 ELSE img[i][j][k]]]]

\* The scale test written with >= in place of > : a maximum of exactly 1
\* takes the 0..255 branch.
EffectiveThreshold_ge(img, threshold) ==
    IF ArrayMax(img) >= Unit THEN Raw(threshold) ELSE Frac(threshold)

\* The threshold binarize compares with: threshold when np.max(img) > 1,
\* threshold/255. otherwise.
EffectiveThreshold(img, threshold) ==
    IF ArrayMax(img) > Unit THEN Raw(threshold) ELSE Frac(threshold)

\* The contents of img after binarize(img, threshold); the function writes
\* them into img itself and returns img.
binarize(img, threshold) ==
    LET t == EffectiveThreshold(img, threshold)
    IN  SetNotAbove(SetAbove(img, t), t)

\* threshold=128 of binarize's signature.
DefaultThreshold == 128

---------------------------------------------------------------------------
(* rescale, lines 56-69. *)

\* np.multiply(img, 1./255)
Multiply255th(img) ==
    [i \in 1..Height(img) |-> [j \in 1..Width(img) |-> [k \in 1..Len(img[i][j]) |->
        img[i][j][k] \div 255]]]

\* rescale without its test of the maximum.
rescale_always(img) == Multiply255th(img)

\* The array rescale returns: a new one when np.max(img) > 1, img itself
\* otherwise.
rescale(img) == IF ArrayMax(img) > Unit THEN Multiply255th(img) ELSE img

\* Whether rescale returns the object it was given.
RescaleReturnsArgument(img) == ~(ArrayMax(img) > Unit)

---------------------------------------------------------------------------
(* mask_max_pixel_normalize, lines 71-97. *)

\* threshold=0.8 of the signature, as the fraction ThresholdNum / ThresholdDen.
ThresholdNum == 4
ThresholdDen == 5

\* channel[channel > (max_value * threshold)] = 1. on a copy of channel k.
NormalizedValue(img, k, v) ==
    IF v * ThresholdDen > ChannelMax(img, k) * ThresholdNum THEN Unit ELSE v

\* np.dstack of the three normalized channels: a new (H, W, 3) array.
mask_max_pixel_normalize(img) ==
    [i \in 1..Height(img) |-> [j \in 1..Width(img) |-> [k \in 1..3 |->
        NormalizedValue(img, k, img[i][j][k])]]]

---------------------------------------------------------------------------
(* mask_argmax, lines 99-125. *)

\* predicted_mask.argmax(axis=2) at one pixel: the highest index holding the
\* maximum (a wrong tie-break).
ArgMax_last(px) ==
    CHOOSE k \in 1..Len(px) :
        /\ \A m \in 1..Len(px) : px[m] <= px[k]
        /\ \A m \in (k+1)..Len(px) : px[m] < px[k]

\* predicted_mask.argmax(axis=2) at one pixel: the first index holding the
\* maximum.
ArgMax(px) ==
    CHOOSE k \in 1..Len(px) :
        /\ \A m \in 1..Len(px) : px[m] <= px[k]
        /\ \A m \in 1..(k-1) : px[m] < px[k]

\* class1..class4 are the four channels of a zero array; channel k is set to
\* 1 where idx == k; np.dstack stacks the four.
mask_argmax(predicted_mask) ==
    [i \in 1..Height(predicted_mask) |-> [j \in 1..Width(predicted_mask) |-> [k \in 1..4 |->
        IF ArgMax(predicted_mask[i][j]) = k THEN Unit ELSE 0]]]

---------------------------------------------------------------------------
(* The class map. *)

Row(n, red, green, blue) == [name |-> n, r |-> red, g |-> green, b |-> blue]

\* The table both codec functions build when class_map is None.
DefaultClassMap ==
    << Row("Sky", 255, 0, 0), Row("Big Rocks", 0, 0, 255),
       Row("Small Rocks", 0, 255, 0), Row("Unlabeled", 0, 0, 0) >>

\* if class_map is None: class_map = pd.DataFrame(...)
ResolveClassMap(cm) == IF cm = None THEN DefaultClassMap ELSE cm

---------------------------------------------------------------------------
(* one_hot_encode, lines 127-169. *)

\* (R == row['r']/255) & (G == row['g']/255) with the B comparison left out.
MatchesRow_noB(px, row) ==
    /\ px[1] = Frac(row.r)
    /\ px[2] = Frac(row.g)

\* (R == row['r']/255) & (G == row['g']/255) & (B == row['b']/255)
MatchesRow(px, row) ==
    /\ px[1] = Frac(row.r)
    /\ px[2] = Frac(row.g)
    /\ px[3] = Frac(row.b)

\* One element of new_img after  new_img[new_img < 2] = 0  and
\* new_img[new_img == 2] = 1 : an element above 2 is left as it is.
Collapse(v) ==
    IF v < Raw(2) THEN 0
    ELSE IF v = Raw(2) THEN Raw(1)
    ELSE v

\* The store into frame, an array of dtype int: the fraction is dropped.
IntCast(v) == (v \div Unit) * Unit

\* new_img[::,::,0] at one pixel, for one row of the class map: a matching
\* pixel was set to 2 in all its channels, any other keeps its R value,
\* and both then pass through the two collapsing assignments.
NewChannel(px, row) ==
    IF MatchesRow(px, row) THEN Collapse(Raw(2)) ELSE Collapse(px[1])

\* frame: one int channel per row of the class map, in row order.
one_hot_encode(img, cm) ==
    LET rows == ResolveClassMap(cm)
    IN  [i \in 1..Height(img) |-> [j \in 1..Width(img) |-> [c \in 1..Len(rows) |->
            IntCast(NewChannel(img[i][j], rows[c]))]]]

---------------------------------------------------------------------------
(* reverse_one_hot_encode, lines 171-229. *)

\* temp_rgb[::,::,plane] at one pixel for class channel c: the binarized
\* channel where the row's component is > 0, the zero of np.zeros otherwise.
Projected(bpx, rows, c, plane) ==
    LET comp == IF plane = 1 THEN rows[c].r
                ELSE IF plane = 2 THEN rows[c].g
                ELSE rows[c].b
    IN  IF comp > 0 THEN bpx[c] ELSE 0

\* rgb_img: per plane, np.max over the stack of the classes' planes.
RgbOf(bin, rows) ==
    [i \in 1..Height(bin) |-> [j \in 1..Width(bin) |-> [plane \in 1..3 |->
        SetMax({Projected(bin[i][j], rows, c, plane) : c \in 1..Len(rows)})]]]

\* The contents of the caller's array once reverse_one_hot_encode is done
\* with it, had the function binarized a copy.
ReverseArgAfter_copy(img) == img

\* The contents of the caller's array once reverse_one_hot_encode is done
\* with it: img = self.binarize(img) wrote into the array it was given.
ReverseArgAfter(img) == binarize(img, DefaultThreshold)

\* The RGB array reverse_one_hot_encode returns.
reverse_one_hot_encode(img, cm) ==
    RgbOf(binarize(img, DefaultThreshold), ResolveClassMap(cm))

---------------------------------------------------------------------------
(* The pipelines, lines 274-309. *)

preprocessor_images(img) == rescale(img)

preprocessor_masks(img, cm) ==
    rescale(one_hot_encode(mask_max_pixel_normalize(img), cm))

---------------------------------------------------------------------------
(* Inputs of the transforms. *)

\* Four colours built from 0 and 255 only, sharing colour planes.
OverlapClassMap ==
    << Row("Yellow", 255, 255, 0), Row("Cyan", 0, 255, 255),
       Row("Magenta", 255, 0, 255), Row("White", 255, 255, 255) >>

\* Four distinct colours, two of them shades of the same plane.
ShadesClassMap ==
    << Row("Sky", 255, 0, 0), Row("Crater", 128, 0, 0),
       Row("Small Rocks", 0, 255, 0), Row("Unlabeled", 0, 0, 0) >>

TwoClassMap == << Row("Rock", 255, 255, 255), Row("Ground", 0, 0, 0) >>

ClassMaps == {None, OverlapClassMap, ShadesClassMap, TwoClassMap}

\* (r/255, g/255, b/255) of a row.
CanonicalColour(row) == <<Frac(row.r), Frac(row.g), Frac(row.b)>>

CanonicalPixels(cm) ==
    {CanonicalColour(ResolveClassMap(cm)[c]) : c \in 1..Len(ResolveClassMap(cm))}

\* Pixels that are no canonical colour of any map above: mid grey and a
\* near miss in the [0,1] scale; pure red, an anti-aliased red and a dark
\* red in the 0..255 scale.
OtherPixels ==
    { <<Frac(128), Frac(128), Frac(128)>>, <<Frac(254), 0, 0>>,
      <<Raw(255), 0, 0>>, <<Raw(200), 0, 0>>, <<Raw(2), 0, 0>> }

\* Per-class score vectors: two one-hot, one soft, one with a tie for the
\* maximum, one all equal, one with two classes above one half.
ScorePixels ==
    { <<Raw(1), 0, 0, 0>>, <<0, 0, 0, Raw(1)>>,
      <<Frac(26), Frac(179), Frac(51), 0>>, <<Frac(51), Frac(102), Frac(102), 0>>,
      <<0, 0, 0, 0>>, <<Frac(153), Frac(140), 0, 0>> }

Inputs(cm) ==
    ArraysOf(CanonicalPixels(cm) \cup OtherPixels, MaxPixels)
      \cup ArraysOf(ScorePixels, MaxPixels)

Thresholds == {0, DefaultThreshold, 255}

---------------------------------------------------------------------------
(* The caller: it owns one array, calls a transform on it, and then calls *)
(* a transform on that array again or on what the first call returned.    *)

NoCall ==
    [fn |-> "none", src |-> "none", threshold |-> 0,
     arg_in |-> None, arg_out |-> None, ret |-> None]

Init ==
    /\ class_map \in ClassMaps
    /\ arr \in Inputs(class_map)
    /\ ret = None
    /\ ret_is_arr = FALSE
    /\ pc = "input"
    /\ c1 = NoCall
    /\ c2 = NoCall
    /\ aug_pc = "idle"
    /\ image = None
    /\ mask = None
    /\ pil_image = None
    /\ pil_mask = None
    /\ flips = None
    /\ draws = <<>>
    /\ out = None

Sources == IF pc = "input" THEN {"arr"} ELSE {"arr", "ret"}

Arg(src) == IF src = "arr" THEN arr ELSE ret

\* One call fn(Arg(src)): res is the array returned, arg_out the contents of
\* the argument object when the call returns, same whether the array
\* returned is the argument object itself.
Call(fn, src, th, arg_out, res, same) ==
    /\ pc \in {"input", "once"}
    /\ pc' = IF pc = "input" THEN "once" ELSE "twice"
    /\ LET rec == [fn |-> fn, src |-> src, threshold |-> th,
                   arg_in |-> Arg(src), arg_out |-> arg_out, ret |-> res]
       IN  IF pc = "input" THEN c1' = rec /\ c2' = c2
                           ELSE c2' = rec /\ c1' = c1
    /\ arr' = IF src = "arr" \/ ret_is_arr THEN arg_out ELSE arr
    /\ ret' = res
    /\ ret_is_arr' = (same /\ (src = "arr" \/ ret_is_arr))
    /\ UNCHANGED <<class_map, augVars>>

Binarize ==
    \E src \in Sources, th \in Thresholds :
        Call("binarize", src, th, binarize(Arg(src), th), binarize(Arg(src), th), TRUE)

Rescale ==
    \E src \in Sources :
        Call("rescale", src, 0, Arg(src), rescale(Arg(src)),
             RescaleReturnsArgument(Arg(src)))

MaskMaxPixelNormalize ==
    \E src \in Sources :
        /\ Channels(Arg(src)) >= 3
        /\ Call("mask_max_pixel_normalize", src, 0, Arg(src),
                mask_max_pixel_normalize(Arg(src)), FALSE)

MaskArgmax ==
    \E src \in Sources :
        /\ Channels(Arg(src)) >= 4
        /\ Call("mask_argmax", src, 0, Arg(src), mask_argmax(Arg(src)), FALSE)

OneHotEncode ==
    \E src \in Sources :
        /\ Channels(Arg(src)) >= 3
        /\ Call("one_hot_encode", src, 0, Arg(src),
                one_hot_encode(Arg(src), class_map), FALSE)

ReverseOneHotEncode ==
    \E src \in Sources :
        /\ Channels(Arg(src)) >= Len(ResolveClassMap(class_map))
        /\ Call("reverse_one_hot_encode", src, DefaultThreshold,
                ReverseArgAfter(Arg(src)),
                reverse_one_hot_encode(Arg(src), class_map), FALSE)

PreprocessorImages ==
    \E src \in Sources :
        Call("preprocessor_images", src, 0, Arg(src),
             preprocessor_images(Arg(src)), RescaleReturnsArgument(Arg(src)))

PreprocessorMasks ==
    \E src \in Sources :
        /\ Channels(Arg(src)) >= 3
        /\ Call("preprocessor_masks", src, 0, Arg(src),
                preprocessor_masks(Arg(src), class_map), FALSE)

Next ==
    \/ Binarize
    \/ Rescale
    \/ MaskMaxPixelNormalize
    \/ MaskArgmax
    \/ OneHotEncode
    \/ ReverseOneHotEncode
    \/ PreprocessorImages
    \/ PreprocessorMasks

Spec == Init /\ [][Next]_vars

---------------------------------------------------------------------------
(* Properties of the codec. *)

RECURSIVE SeqSum(_)
SeqSum(sq) == IF sq = <<>> THEN 0 ELSE Head(sq) + SeqSum(Tail(sq))

\* The calls made so far.
Calls == {c \in {c1, c2} : c.fn # "none"}

\* A mask in the [0,1] scale whose every pixel is a canonical colour of cm.
IsCanonicalMask(img, cm) ==
    \A p \in Positions(img) : img[p[1]][p[2]] \in CanonicalPixels(cm)

HasShape(img, h, w, n) ==
    /\ Height(img) = h
    /\ \A i \in 1..h : Len(img[i]) = w /\ \A j \in 1..w : Len(img[i][j]) = n

\* C1: round trip.  For a mask in the [0,1] scale made only of canonical
\* colours of a 4-class map, reverse_one_hot_encode(one_hot_encode(mask))
\* is, at every pixel and plane, the original value in the 0/255 scale
\* (255 times the [0,1] value).
C1_RoundTrip ==
    ( /\ pc = "twice"
      /\ Len(ResolveClassMap(class_map)) = 4
      /\ c1.fn = "one_hot_encode"
      /\ IsCanonicalMask(c1.arg_in, class_map)
      /\ c2.fn = "reverse_one_hot_encode"
      /\ c2.src = "ret" )
    => \A p \in Positions(c1.arg_in) : \A k \in 1..3 :
          c2.ret[p[1]][p[2]][k] = 255 * c1.arg_in[p[1]][p[2]][k]

\* C2: for a mask made only of canonical colours of the class map (N rows,
\* pairwise distinct), one_hot_encode returns an (H, W, N) array whose
\* channels sum to exactly 1 at every pixel, every channel being 0 or 1 and
\* the 1 sitting in the channel of the row whose colour the pixel has.
C2_OneHotCanonical ==
    \A c \in Calls :
        (c.fn = "one_hot_encode" /\ IsCanonicalMask(c.arg_in, class_map))
        => LET rows == ResolveClassMap(class_map)
           IN  /\ HasShape(c.ret, Height(c.arg_in), Width(c.arg_in), Len(rows))
               /\ \A p \in Positions(c.arg_in) :
                    LET px == c.arg_in[p[1]][p[2]]
                        hot == c.ret[p[1]][p[2]]
                    IN  /\ SeqSum(hot) = Raw(1)
                        /\ \A n \in 1..Len(rows) :
                             /\ hot[n] \in {0, Raw(1)}
                             /\ (hot[n] = Raw(1)) <=> (px = CanonicalColour(rows[n]))

\* C2 happens: the default map and an all-Sky mask of two pixels give
\* channel 0 all ones and channels 1-3 all zero.
C2_Witness ==
    /\ c1.fn = "one_hot_encode"
    /\ class_map = None
    /\ c1.arg_in = << << <<Raw(1), 0, 0>>, <<Raw(1), 0, 0>> >> >>
    /\ c1.ret = << << <<Raw(1), 0, 0, 0>>, <<Raw(1), 0, 0, 0>> >> >>

\* C3: every pixel of the input of one_hot_encode that equals no row's
\* (r/255, g/255, b/255) is 0 in every channel of the output.
C3_UnmatchedAllZero ==
    \A c \in Calls :
        c.fn = "one_hot_encode"
        => LET rows == ResolveClassMap(class_map)
           IN  \A p \in Positions(c.arg_in) :
                 (\A n \in 1..Len(rows) :
                     <<c.arg_in[p[1]][p[2]][1], c.arg_in[p[1]][p[2]][2],
                       c.arg_in[p[1]][p[2]][3]>> # CanonicalColour(rows[n]))
                 => \A n \in 1..Len(rows) : c.ret[p[1]][p[2]][n] = 0

\* A colour mask in the 0..255 scale: three channels of whole numbers.
IsRawMask(img) ==
    /\ Channels(img) = 3
    /\ Elements(img) \subseteq {Raw(k) : k \in 0..255}

\* C4: for a raw colour mask with values in 0..255 and the default class
\* map, every element of what preprocessor_masks returns is 0 or 1.
C4_PreprocessorMasksOneHot ==
    \A c \in Calls :
        (c.fn = "preprocessor_masks" /\ class_map = None /\ IsRawMask(c.arg_in))
        => Elements(c.ret) \subseteq {0, Raw(1)}

---------------------------------------------------------------------------
(* Properties of the intensity transforms. *)

\* The places of an array: row, column, channel.
Places(img) ==
    {<<i, j, k>> \in (1..Height(img)) \X (1..Width(img)) \X (1..Channels(img)) : TRUE}

At(img, q) == img[q[1]][q[2]][q[3]]

\* C5: every element of an array after binarize is 0 or 255, whatever the
\* scale of the input and whatever the threshold.
C5_BinarizeRange ==
    \A c \in Calls :
        c.fn = "binarize"
        => /\ Elements(c.ret) \subseteq {0, Raw(255)}
           /\ Elements(c.arg_out) \subseteq {0, Raw(255)}

\* C5 happens: a [0,1]-scale array holding the value 128/255, equal to the
\* threshold in its scale, was binarized at 128 into zeros and 255s.
C5_Witness ==
    /\ c1.fn = "binarize"
    /\ c1.threshold = DefaultThreshold
    /\ ArrayMax(c1.arg_in) <= Raw(1)
    /\ Frac(128) \in Elements(c1.arg_in)
    /\ Elements(c1.ret) = {0, Raw(255)}

\* C6: binarize compares with threshold when the maximum of the array is
\* above 1 and with threshold/255 otherwise (maximum exactly 1 included);
\* an element strictly above that ends as 255, any other ends as 0.
C6_BinarizeThreshold ==
    \A c \in Calls :
        c.fn = "binarize"
        => LET top == SetMax(Elements(c.arg_in))
               t == IF top > Raw(1) THEN Raw(c.threshold) ELSE Frac(c.threshold)
           IN  \A q \in Places(c.arg_in) :
                 /\ At(c.arg_in, q) > t => At(c.ret, q) = Raw(255)
                 /\ At(c.arg_in, q) <= t => At(c.ret, q) = 0

\* C6 happens: an array whose maximum is exactly 1 was binarized at 128, and
\* its ones, above 128/255, became 255.
C6_Witness ==
    /\ c1.fn = "binarize"
    /\ c1.threshold = DefaultThreshold
    /\ ArrayMax(c1.arg_in) = Raw(1)
    /\ \E q \in Places(c1.arg_in) :
          At(c1.arg_in, q) = Raw(1) /\ At(c1.ret, q) = Raw(255)
    /\ \E q \in Places(c1.arg_in) : At(c1.ret, q) = 0

\* C7: rescale returns img/255 elementwise when max(img) > 1 and img as it
\* is otherwise, so rescaling what rescale returned changes nothing.
C7_RescaleIdempotent ==
    /\ \A c \in Calls :
          c.fn = "rescale"
          => IF SetMax(Elements(c.arg_in)) > Raw(1)
             THEN /\ HasShape(c.ret, Height(c.arg_in), Width(c.arg_in), Channels(c.arg_in))
                  /\ \A q \in Places(c.arg_in) : At(c.ret, q) * 255 = At(c.arg_in, q)
             ELSE c.ret = c.arg_in
    /\ (pc = "twice" /\ c1.fn = "rescale" /\ c2.fn = "rescale" /\ c2.src = "ret")
          => c2.ret = c1.ret

\* C7 happens: an array of maximum 200 was rescaled to 200/255, and the
\* result was rescaled again.
C7_Witness ==
    /\ pc = "twice"
    /\ c1.fn = "rescale"
    /\ ArrayMax(c1.arg_in) = Raw(200)
    /\ ArrayMax(c1.ret) = Frac(200)
    /\ c2.fn = "rescale"
    /\ c2.src = "ret"
    /\ c2.arg_in = c1.ret

\* C8: mask_argmax of an (H, W, 4) score array is an (H, W, 4) array with,
\* at every pixel, exactly one channel at 1 and three at 0; the channel at
\* 1 holds the maximum score of the pixel and is the lowest such channel.
C8_ArgmaxOneHot ==
    \A c \in Calls :
        (c.fn = "mask_argmax" /\ Channels(c.arg_in) = 4)
        => /\ HasShape(c.ret, Height(c.arg_in), Width(c.arg_in), 4)
           /\ \A p \in Positions(c.arg_in) :
                LET score == c.arg_in[p[1]][p[2]]
                    hot == c.ret[p[1]][p[2]]
                IN  /\ Cardinality({k \in 1..4 : hot[k] = Raw(1)}) = 1
                    /\ Cardinality({k \in 1..4 : hot[k] = 0}) = 3
                    /\ \A k \in 1..4 :
                         hot[k] = Raw(1)
                         => /\ \A m \in 1..4 : score[m] <= score[k]
                            /\ \A m \in 1..4 : m < k => score[m] < score[k]

\* C8 happens: a pixel whose channels 1 and 2 tie for the maximum came out
\* with channel 1 set.
C8_Witness ==
    /\ c1.fn = "mask_argmax"
    /\ \E p \in Positions(c1.arg_in) :
          /\ c1.arg_in[p[1]][p[2]] = <<Frac(51), Frac(102), Frac(102), 0>>
          /\ c1.ret[p[1]][p[2]] = <<0, Raw(1), 0, 0>>

\* C10: reverse_one_hot_encode leaves the array it was given binarized at
\* 128 (every element 0 or 255); mask_max_pixel_normalize, one_hot_encode
\* and rescale leave theirs as it was; the caller's array holds what the
\* call left in it; and a second reverse_one_hot_encode on the overwritten
\* array returns the RGB image the first returned.
C10_InPlaceEffects ==
    /\ \A c \in Calls :
          c.fn = "reverse_one_hot_encode"
          => LET t == IF SetMax(Elements(c.arg_in)) > Raw(1)
                      THEN Raw(128) ELSE Frac(128)
             IN  \A q \in Places(c.arg_in) :
                    At(c.arg_out, q) = IF At(c.arg_in, q) > t THEN Raw(255) ELSE 0
    /\ \A c \in Calls :
          c.fn \in {"mask_max_pixel_normalize", "one_hot_encode", "rescale"}
          => c.arg_out = c.arg_in
    /\ (pc = "once" /\ c1.src = "arr") => arr = c1.arg_out
    /\ (pc = "twice" /\ c1.fn = "reverse_one_hot_encode"
          /\ c2.fn = "reverse_one_hot_encode" /\ c2.src = "arr")
          => c2.arg_in = c1.arg_out /\ c2.ret = c1.ret

\* C10 happens: a soft score array was decoded twice; the first call
\* overwrote it and the second read the overwritten array.
C10_Witness ==
    /\ pc = "twice"
    /\ c1.fn = "reverse_one_hot_encode"
    /\ Frac(179) \in Elements(c1.arg_in)
    /\ c1.arg_out # c1.arg_in
    /\ c2.fn = "reverse_one_hot_encode"
    /\ c2.src = "arr"
    /\ c2.arg_in = c1.arg_out

---------------------------------------------------------------------------
(* data_augmentation, lines 231-272, and RandomChoice, lines 311-318. *)

\* (x * 255).astype(np.uint8) on one value: the product loses its fraction
\* and is kept modulo 256.
ToUint8(v) == ((v * 255) \div Unit) % 256

\* Image.fromarray((x * 255).astype(np.uint8))
FromArray(x) ==
    [i \in 1..Height(x) |-> [j \in 1..Width(x) |-> [k \in 1..Len(x[i][j]) |->
        ToUint8(x[i][j][k])]]]

\* np.asarray(pil) / 255
AsArray255th(pil) ==
    [i \in 1..Height(pil) |-> [j \in 1..Width(pil) |-> [k \in 1..Len(pil[i][j]) |->
        Frac(pil[i][j][k])]]]

\* TF.vflip: the rows in reverse order.
vflip(pil) == [i \in 1..Height(pil) |-> pil[Height(pil) + 1 - i]]

\* TF.hflip: every row in reverse order.
hflip(pil) ==
    [i \in 1..Height(pil) |-> [j \in 1..Width(pil) |-> pil[i][Width(pil) + 1 - j]]]

\* The 0.2 both flip decisions compare random.random() with, in tenths.
FlipCutoffTenths == 2

\* Outcomes of random.random(), in tenths: below, at and above the cutoff.
RandomTenths == {1, 2, 3}

\* What the one transform of the list, T.ColorJitter(brightness=0.5, ...),
\* may do to an 8-bit image: its random factors are drawn inside the
\* library; the outcomes kept here scale every value by halves/2 and
\* saturate at 255.
JitterHalves == {1, 2, 3}

ColorJitter(pil, halves) ==
    [i \in 1..Height(pil) |-> [j \in 1..Width(pil) |-> [k \in 1..Len(pil[i][j]) |->
        IF (pil[i][j][k] * halves) \div 2 > 255 THEN 255
        ELSE (pil[i][j][k] * halves) \div 2]]]

\* Image pixels in the [0,1] scale; the second is not a multiple of 1/255.
ImagePixels ==
    { <<Frac(200), Frac(100), Frac(50)>>, <<Frac(10) + 7, 0, Raw(1)>> }

\* Mask pixels in the [0,1] scale: the Sky colour, and an anti-aliased
\* pixel whose red value (just above one half) is not a multiple of 1/255.
MaskPixels ==
    { <<Raw(1), 0, 0>>, <<Frac(127) + 128, Frac(33), 0>> }

SameShape(x, y) == Height(x) = Height(y) /\ Width(x) = Width(y)

InitAug ==
    /\ mask \in ArraysOf(MaskPixels, MaxAugPixels)
    /\ image \in {x \in ArraysOf(ImagePixels, MaxAugPixels) : SameShape(x, mask)}
    /\ aug_pc = "convert"
    /\ pil_image = None
    /\ pil_mask = None
    /\ flips = [image |-> <<>>, mask |-> <<>>]
    /\ draws = <<>>
    /\ out = None
    /\ class_map = None
    /\ arr = None
    /\ ret = None
    /\ ret_is_arr = FALSE
    /\ pc = "idle"
    /\ c1 = NoCall
    /\ c2 = NoCall

\* Lines 248-249.
AugConvert ==
    /\ aug_pc = "convert"
    /\ pil_image' = FromArray(image)
    /\ pil_mask' = FromArray(mask)
    /\ aug_pc' = "vflip"
    /\ UNCHANGED <<image, mask, flips, draws, out, procVars>>

\* Lines 253-255 with the flip of the mask left out.
AugVerticalFlip_imageOnly(d) ==
    /\ aug_pc = "vflip"
    /\ draws' = Append(draws, [what |-> "vflip", value |-> d])
    /\ IF d > FlipCutoffTenths
       THEN /\ pil_image' = vflip(pil_image)
            /\ pil_mask' = pil_mask
            /\ flips' = [flips EXCEPT !.image = Append(@, "vflip")]
       ELSE UNCHANGED <<pil_image, pil_mask, flips>>
    /\ aug_pc' = "hflip"
    /\ UNCHANGED <<image, mask, out, procVars>>

\* Lines 253-255: one draw decides the vertical flip of both.
AugVerticalFlip(d) ==
    /\ aug_pc = "vflip"
    /\ draws' = Append(draws, [what |-> "vflip", value |-> d])
    /\ IF d > FlipCutoffTenths
       THEN /\ pil_image' = vflip(pil_image)
            /\ pil_mask' = vflip(pil_mask)
            /\ flips' = [image |-> Append(flips.image, "vflip"),
                         mask |-> Append(flips.mask, "vflip")]
       ELSE UNCHANGED <<pil_image, pil_mask, flips>>
    /\ aug_pc' = "hflip"
    /\ UNCHANGED <<image, mask, out, procVars>>

\* Lines 258-260: a second draw decides the horizontal flip of both.
AugHorizontalFlip(d) ==
    /\ aug_pc = "hflip"
    /\ draws' = Append(draws, [what |-> "hflip", value |-> d])
    /\ IF d > FlipCutoffTenths
       THEN /\ pil_image' = hflip(pil_image)
            /\ pil_mask' = hflip(pil_mask)
            /\ flips' = [image |-> Append(flips.image, "hflip"),
                         mask |-> Append(flips.mask, "hflip")]
       ELSE UNCHANGED <<pil_image, pil_mask, flips>>
    /\ aug_pc' = "photometric"
    /\ UNCHANGED <<image, mask, out, procVars>>

\* Lines 263-267 and RandomChoice.__call__: random.choice picks the one
\* transform of the list, which is applied to every element of the list
\* [pil_image]; pil_mask is not in that list.
AugPhotometric(halves) ==
    /\ aug_pc = "photometric"
    /\ draws' = Append(draws, [what |-> "jitter", value |-> halves])
    /\ pil_image' = ColorJitter(pil_image, halves)
    /\ aug_pc' = "return"
    /\ UNCHANGED <<image, mask, pil_mask, flips, out, procVars>>

\* Lines 269-272.
AugReturn ==
    /\ aug_pc = "return"
    /\ out' = [img |-> AsArray255th(pil_image), msk |-> AsArray255th(pil_mask)]
    /\ aug_pc' = "done"
    /\ UNCHANGED <<image, mask, pil_image, pil_mask, flips, draws, procVars>>

NextAug ==
    \/ AugConvert
    \/ \E d \in RandomTenths : AugVerticalFlip(d)
    \/ \E d \in RandomTenths : AugHorizontalFlip(d)
    \/ \E halves \in JitterHalves : AugPhotometric(halves)
    \/ AugReturn

SpecAug == InitAug /\ [][NextAug]_vars

---------------------------------------------------------------------------
(* Properties of data_augmentation. *)

\* The flips, in order, that the draws made so far call for.
FlipsDrawn ==
    LET taken == SelectSeq(draws, LAMBDA e : e.what # "jitter" /\ e.value > 2)
    IN  [n \in 1..Len(taken) |-> taken[n].what]

\* An array with its rows, then the pixels of its rows, reversed as asked.
Mirrored(x, upsideDown, leftRight) ==
    [i \in 1..Height(x) |-> [j \in 1..Width(x) |->
        x[IF upsideDown THEN Height(x) + 1 - i ELSE i]
         [IF leftRight THEN Width(x) + 1 - j ELSE j]]]

Has(sq, e) == \E n \in 1..Len(sq) : sq[n] = e

\* The flips are paired and drawn vertical first, and the photometric
\* transform reaches the image only.
PairedFlips ==
    /\ Has(flips.mask, "vflip") <=> Has(flips.image, "vflip")
    /\ Has(flips.mask, "hflip") <=> Has(flips.image, "hflip")
    /\ flips.mask = FlipsDrawn
    /\ flips.image = FlipsDrawn
    /\ \A n \in 1..Len(draws) :
          draws[n].what = (<<"vflip", "hflip", "jitter">>)[n]
    /\ aug_pc = "done"
          => \A q \in Places(image) :
                At(out.img, q) =
                   LET v == At(Mirrored(image, Has(flips.image, "vflip"),
                                        Has(flips.image, "hflip")), q)
                       byte == (v \div 255) % 256
                       lit == (byte * draws[3].value) \div 2
                   IN  255 * (IF lit > 255 THEN 255 ELSE lit)

\* C9 as stated: paired flips, and the returned mask is the input mask
\* changed by exactly the flips the image received and by nothing else.
C9_MaskOnlyFlipped ==
    /\ PairedFlips
    /\ aug_pc = "done"
          => out.msk = Mirrored(mask, Has(flips.image, "vflip"),
                                Has(flips.image, "hflip"))

\* C9, amended: paired flips, and the returned mask is the input mask
\* reduced to 8 bits (each value v to the whole part of 255 v, over 255)
\* and changed by exactly the flips the image received.
C9_MaskQuantisedAndFlipped ==
    /\ PairedFlips
    /\ aug_pc = "done"
          => \A q \in Places(mask) :
                At(out.msk, q) =
                   255 * ((At(Mirrored(mask, Has(flips.image, "vflip"),
                                       Has(flips.image, "hflip")), q) \div 255) % 256)

\* C9 happens: a 2 x 2 pair received both flips and a darkening jitter, and
\* the mask came back different from the one handed in.
C9_Witness ==
    /\ aug_pc = "done"
    /\ Height(mask) = 2
    /\ Width(mask) = 2
    /\ flips.image = <<"vflip", "hflip">>
    /\ draws[3].value = 1
    /\ out.msk # mask
    /\ out.msk[1][1] = <<Raw(1), 0, 0>>
    /\ mask[2][2] = <<Raw(1), 0, 0>>
    /\ mask[1][1] # <<Raw(1), 0, 0>>

=============================================================================
